---- MODULE Spec2Model ----
(***************************************************************************)
(* The AR recognition page of MemorAI (frontend/app/ar/page.tsx, latest    *)
(* revision): the render loop of ARPage, its per-track stabilisation, box  *)
(* smoothing, card placement, narration and request gating.                *)
(*                                                                         *)
(* Times are integer milliseconds (performance.now()).  Confidences are    *)
(* hundredths (0.62 is 62).  Display coordinates are integers counted in    *)
(* 1/SubPx of a pixel, so that the 0.35 blend of emaBox is exact for the   *)
(* first blends of a pixel-aligned box.                                    *)
(***************************************************************************)
EXTENDS Integers, Sequences, FiniteSets, TLC

\* ------------------------------------------------------------ bounds
\* recognition requests issued in one behaviour of Spec
MaxReq == 2
\* recognition requests (frames) issued in one behaviour of TrackSpec
MaxFrames == 4
\* recognition requests issued in NarrSpec
MaxNarrFrames == 4
\* recognition requests issued in CardSpec
MaxCardFrames == 3
\* recognition requests issued in RecoverSpec
MaxRecoverFrames == 3
\* recognition requests issued in VoteSpec
MaxVoteFrames == 4
\* the largest number of attempts a call of syncGalleryFromFirestore asks for
MaxAttempts == 3
\* recognition requests issued in PairSpec
MaxPairFrames == 3
\* recognition requests issued in TeardownSpec
MaxTeardownFrames == 2

\* ------------------------------------------------- program constants
ACCEPT_CONF == 62
HOLD_MS == 500
MAJ_WIN == 2
STALE_MS == 2000
EMA_NUM == 7
EMA_DEN == 20
SEND_W == 288
FRAME_MS == 125
SPEAK_COOLDOWN_MS == 1200
CARD_W == 320
CARD_H == 260
PAD == 8
SAFE_GAP == 16
FLIP_COOLDOWN == 700
CARD_Y_THROTTLE == 90
IDEAL_W == 1280
IDEAL_H == 720

\* sub-pixel resolution of display coordinates: 20^3, three exact blends
SubPx == EMA_DEN * EMA_DEN * EMA_DEN

Unknown == "Unknown"

\* ------------------------------------------------------- input sets
Names == {"Alice", "Bob", Unknown}
TrackIds == {1, 2}
\* bbox in SEND space, whole pixels; multiples of 9 scale exactly to 1280x720
BoxNear == <<9, 9, 45, 45>>
BoxFar == <<189, 90, 45, 45>>
\* a face on the right of the mirrored display, level with the card's
\* initial position, and its counterpart on the left
BoxRight == <<18, 63, 36, 36>>
BoxLeft == <<207, 63, 36, 36>>
Det(t, b, n, c) == [track_id |-> t, bbox |-> b, name |-> n, conf |-> c]

\* ------------------------------------------------------- JS helpers
Max(a, b) == IF a >= b THEN a ELSE b
Min(a, b) == IF a <= b THEN a ELSE b
\* Math.round of the quotient n/d of two positive integers
RoundDiv(n, d) == (2 * n + d) \div (2 * d)

\* Map.set / Map.delete on a map kept as a function over its keys
MapSet(m, k, v) == [x \in (DOMAIN m) \cup {k} |-> IF x = k THEN v ELSE m[x]]
MapDel(m, K) == [x \in (DOMAIN m) \ K |-> m[x]]
EmptyMap == [x \in {} |-> 0]

\* ---------------------------------------------- scaleBBox, mirrorBBox
\* [x*sx, y*sy, w*sx, h*sy] with sx = W/sendW, sy = H/sendH; the result is
\* in 1/SubPx pixels (bbox is in whole SEND pixels, W and H in pixels)
scaleBBox(b, W, H, sendW, sendH) ==
  << (b[1] * W * SubPx) \div sendW, (b[2] * H * SubPx) \div sendH,
     (b[3] * W * SubPx) \div sendW, (b[4] * H * SubPx) \div sendH >>

\* (mutant) the box is mirrored a second time
mirrorBBoxTwice(b, W) == << b[1], b[2], b[3], b[4] >>

mirrorBBox(b, W) == << W * SubPx - (b[1] + b[3]), b[2], b[3], b[4] >>

\* sendH = Math.round((sendW * vH) / vW)
SendH(vW, vH) == RoundDiv(SEND_W * vH, vW)

\* the scale -> mirror of a detection's bbox onto the overlay canvas
DisplayBox(bbox, W, H) == mirrorBBox(scaleBBox(bbox, W, H, SEND_W, SendH(W, H)), W)

\* -------------------------------------------------------------- emaBox
\* (mutant) a factor above one
BlendPast(p, x) == p + (27 * (x - p)) \div EMA_DEN

\* prev + alpha * (box - prev), component-wise, alpha = 0.35 = 7/20
Blend(p, x) == p + (EMA_NUM * (x - p)) \div EMA_DEN

emaBoxOut(sb, tid, box) ==
  IF tid \notin DOMAIN sb THEN box
  ELSE << Blend(sb[tid][1], box[1]), Blend(sb[tid][2], box[2]),
          Blend(sb[tid][3], box[3]), Blend(sb[tid][4], box[4]) >>

\* the smoothBoxes map after emaBox(tid, box)
emaBox(sb, tid, box) == MapSet(sb, tid, emaBoxOut(sb, tid, box))

\* ------------------------------------------------ track stabilisation
CountIn(h, x) == Cardinality({i \in DOMAIN h : h[i] = x})

\* Array.prototype.sort with (a, b) => count(b) - count(a): a stable sort of
\* hist by descending number of occurrences in hist
RECURSIVE InsertByCount(_, _, _)
InsertByCount(sorted, x, h) ==
  IF sorted = <<>> THEN <<x>>
  ELSE IF CountIn(h, Head(sorted)) >= CountIn(h, x)
       THEN <<Head(sorted)>> \o InsertByCount(Tail(sorted), x, h)
       ELSE <<x>> \o sorted

RECURSIVE SortFrom(_, _, _)
SortFrom(sorted, rest, h) ==
  IF rest = <<>> THEN sorted
  ELSE SortFrom(InsertByCount(sorted, Head(rest), h), Tail(rest), h)

HistSort(h) == SortFrom(<<>>, h, h)

\* (mutant) the newest entry is evicted
HistPushKeepsOldest(h, name) ==
  IF Len(h) + 1 > MAJ_WIN THEN h ELSE Append(h, name)

\* hist.push(d.name); if (hist.length > MAJ_WIN) hist.shift()
HistPush(h, name) ==
  IF Len(h) + 1 > MAJ_WIN THEN Tail(Append(h, name)) ELSE Append(h, name)

\* (mutant) the newest entry of the history is taken
MajorityLast(sortedHist) == sortedHist[Len(sortedHist)]

\* maj = hist.sort(...)[0]
Majority(sortedHist) == sortedHist[1]

\* (mutant) no early accept: the majority is always the candidate
CandidateMajority(d, maj) == maj

\* let show = (d.conf ?? 0) >= ACCEPT_CONF ? d.name : maj
Candidate(d, maj) == IF d.conf >= ACCEPT_CONF THEN d.name ELSE maj

\* (mutant) no hysteresis
HoldNever(show, hasPrev, prev, nowMs) == show

\* hysteresis: brief Unknown keeps the prior name
Hold(show, hasPrev, prev, nowMs) ==
  IF show = Unknown /\ hasPrev /\ prev.name # Unknown
     /\ nowMs - prev.lastSeen < HOLD_MS
  THEN prev.name ELSE show

\* (mutant) one history shared by every track
HistOfAny(th, tid) ==
  IF DOMAIN th = {} THEN <<>> ELSE th[CHOOSE t \in DOMAIN th : \A u \in DOMAIN th : t <= u]

\* trackHistory.current.get(d.track_id) ?? []
HistOf(th, tid) == IF tid \in DOMAIN th THEN th[tid] ELSE <<>>

NoPrev == [name |-> Unknown, conf |-> 0, lastSeen |-> 0]

\* one pass of the stabilisation loop body for detection d; m holds the two
\* maps and the detections relabelled so far (d.name = show), and records
\* each track's candidate `show` before hysteresis (cand) and the last time
\* it was a name (known)
StabilizeOne(m, d, nowMs) ==
  LET tid == d.track_id
      old == HistOf(m.th, tid)
      hist == HistSort(HistPush(old, d.name))
      maj == Majority(hist)
      hasPrev == tid \in DOMAIN m.ts
      prev == IF hasPrev THEN m.ts[tid] ELSE NoPrev
      cand == Candidate(d, maj)
      show == Hold(cand, hasPrev, prev, nowMs)
  IN [th |-> MapSet(m.th, tid, hist),
      ts |-> MapSet(m.ts, tid, [name |-> show, conf |-> d.conf, lastSeen |-> nowMs]),
      dets |-> Append(m.dets, [d EXCEPT !.name = show]),
      cand |-> MapSet(m.cand, tid, cand),
      known |-> IF cand # Unknown THEN MapSet(m.known, tid, nowMs) ELSE m.known]

RECURSIVE StabilizeAll(_, _, _)
StabilizeAll(m, dets, nowMs) ==
  IF dets = <<>> THEN m
  ELSE StabilizeAll(StabilizeOne(m, Head(dets), nowMs), Tail(dets), nowMs)

\* the keys the prune loop deletes: nowMs - st.lastSeen > 2000
StaleTracks(ts, nowMs) == {t \in DOMAIN ts : nowMs - ts[t].lastSeen > STALE_MS}

\* (mutant) the prune of the earlier revision: smoothBoxes is not cleaned
PruneTwoMaps(th, ts, sb, nowMs) ==
  [th |-> MapDel(th, StaleTracks(ts, nowMs)), ts |-> MapDel(ts, StaleTracks(ts, nowMs)),
   sb |-> sb]

\* prune stale tracks: the three maps after the housekeeping loop
Prune(th, ts, sb, nowMs) ==
  LET gone == StaleTracks(ts, nowMs)
  IN [th |-> MapDel(th, gone), ts |-> MapDel(ts, gone), sb |-> MapDel(sb, gone)]

\* the draw loop: scale -> mirror -> EMA for every detection, in order
RECURSIVE DrawAll(_, _, _, _)
DrawAll(sb, dets, W, H) ==
  IF dets = <<>> THEN sb
  ELSE DrawAll(emaBox(sb, Head(dets).track_id, DisplayBox(Head(dets).bbox, W, H)),
               Tail(dets), W, H)

\* dets.filter(d => d.name !== "Unknown").sort((a, b) => b.conf - a.conf)[0]:
\* the first detection, in arrival order, of highest confidence among the
\* named ones; NoBest when there is none
NoBest == [track_id |-> 0, bbox |-> <<0, 0, 0, 0>>, name |-> Unknown, conf |-> 0]
NamedIdx(dets) == {i \in DOMAIN dets : dets[i].name # Unknown}
HasBest(dets) == NamedIdx(dets) # {}
\* (mutant) the first named detection, whatever its confidence
BestFirst(dets) ==
  IF ~HasBest(dets) THEN NoBest
  ELSE dets[CHOOSE i \in NamedIdx(dets) : \A j \in NamedIdx(dets) : i <= j]

Best(dets) ==
  IF ~HasBest(dets) THEN NoBest
  ELSE LET top == {i \in NamedIdx(dets) :
                     \A j \in NamedIdx(dets) : dets[j].conf <= dets[i].conf}
           first == CHOOSE i \in top : \A j \in top : i <= j
       IN dets[first]

\* ------------------------------------------------------ card placement
\* style.top of a card element that still has its initial "calc(50% - 130px)"
\* (parseFloat gives NaN); a written top is never negative
NaNTop == -1
Px(n) == n * SubPx

\* current top of the card: parseFloat(cardElRef.current?.style.top || "0")
TopNow(el, top, by, bh, H) ==
  IF ~el THEN 0
  ELSE IF top = NaNTop
       THEN Max(Px(PAD), Min(by + bh \div 2 - Px(CARD_H) \div 2, Px(H) - Px(CARD_H) - Px(PAD)))
       ELSE top

LeftOf(side, W) == IF side = "left" THEN Px(PAD) ELSE Px(W) - Px(CARD_W) - Px(PAD)

\* card and face further apart than SAFE_GAP on the vertical axis
ClearVertically(cy, fy, fh) ==
  cy + Px(CARD_H) < fy - Px(SAFE_GAP) \/ fy + fh < cy - Px(SAFE_GAP)

Intersects(cx, cy, fx, fy, fw, fh) ==
  ~( cx + Px(CARD_W) < fx - Px(SAFE_GAP) \/ fx + fw < cx - Px(SAFE_GAP)
     \/ ClearVertically(cy, fy, fh) )

Flip(side) == IF side = "left" THEN "right" ELSE "left"

\* (mutant) the target is written as it is
ClampTopNot(t, H) == t

\* Math.max(PAD, Math.min(targetTop, canvas.height - CARD_H - PAD))
ClampTop(t, H) == Max(Px(PAD), Min(t, Px(H) - Px(CARD_H) - Px(PAD)))

\* the "avoid covering face" block for the best detection: c is the card
\* state [side, lastFlip, top, lastY, style]; el says the card element exists
CardAvoid(c, best, nowMs, el, W, H) ==
  LET bb == DisplayBox(best.bbox, W, H)
      fx == bb[1]
      fy == bb[2]
      fw == bb[3]
      fh == bb[4]
      topNow == TopNow(el, c.top, fy, fh, H)
      leftNow == LeftOf(c.side, W)
      flip == Intersects(leftNow, topNow, fx, fy, fw, fh)
              /\ nowMs - c.lastFlip > FLIP_COOLDOWN
      newSide == IF flip THEN Flip(c.side) ELSE c.side
      nudge == ~ClearVertically(topNow, fy, fh)
      aboveTop == Max(Px(PAD), fy - Px(CARD_H) - Px(SAFE_GAP))
      belowTop == Min(Px(H) - Px(CARD_H) - Px(PAD), fy + fh + Px(SAFE_GAP))
      spaceAbove == fy - Px(PAD)
      spaceBelow == Px(H) - (fy + fh) - Px(PAD)
      targetTop == IF ~nudge THEN topNow
                   ELSE IF spaceAbove >= spaceBelow THEN aboveTop ELSE belowTop
      writeY == el /\ nowMs - c.lastY > CARD_Y_THROTTLE
      clampedTop == ClampTop(targetTop, H)
  IN [side |-> newSide,
      lastFlip |-> IF flip THEN nowMs ELSE c.lastFlip,
      top |-> IF writeY THEN clampedTop ELSE c.top,
      lastY |-> IF writeY THEN nowMs ELSE c.lastY,
      style |-> IF el THEN newSide ELSE c.style]

\* the "snap side when person changes" block
CardSnap(c, best, lastName, el, W, H) ==
  LET bb == DisplayBox(best.bbox, W, H)
      faceCenterX == bb[1] + bb[3] \div 2
      side == IF faceCenterX < Px(W) \div 2 THEN "right" ELSE "left"
  IN IF best.name # lastName
     THEN [c EXCEPT !.side = side, !.style = IF el THEN side ELSE c.style]
     ELSE c

\* ----------------------------------------------------------- the state
VARIABLES
  \* refs of the component (useRef), shared by every run of the effect
  trackHistory, trackState, smoothBoxes, reqCounter, lastHandledReq,
  lastSpeakAt, lastNameShown, card,
  \* React state: status (with lastStatusRef) and the displayed card data
  status, ui,
  \* the last call of safeSetStatus: its argument, lastStatusRef before the
  \* call, and whether it called setStatus
  stat,
  \* the component is mounted: videoRef, overlayRef hold their elements
  mounted,
  \* runs of the effect: how many were started, each run's `running` flag,
  \* the position of its init/loop chain, the locals of the loop invocation
  \* that is suspended (myReqId, nowMs, best.name) and its pending timers
  started, running, pc, myReqId, frameNow, bestName, timers,
  \* performance.now()
  now,
  \* video.videoWidth, video.videoHeight (0 until the stream plays)
  video,
  \* observations: the epochs whose detections were processed, in order; the
  \* last completion of a recognition request; the utterances; per track,
  \* what the last frame with that track took in and found; the last
  \* processed frame
  applied, evt, spoken, trk, known, frame,
  \* a box, the sizes it is mapped between, and the box drawn for it
  geo,
  \* the backend: one POST /api/people request and what its handler has done;
  \* one call of syncGalleryFromFirestore and where its retry loop stands
  enroll, sync

refs == <<trackHistory, trackState, smoothBoxes, reqCounter, lastHandledReq,
          lastSpeakAt, lastNameShown, card>>
tracks == <<trackHistory, trackState, smoothBoxes>>
locals == <<myReqId, frameNow, bestName>>
obs == <<applied, evt, spoken, trk, known, frame>>
back == <<enroll, sync>>
env == <<video, geo, back>>
vars == <<refs, status, stat, ui, mounted, started, running, pc, locals, timers, now, obs, env>>

\* the runs of the effect: the mount and one re-run on the same component
Sessions == {1, 2}

\* the size the camera delivers: the ideal one, or the QVGA of a small camera
IdealSize == [w |-> IDEAL_W, h |-> IDEAL_H]
SmallSize == [w |-> 320, h |-> 240]
NoVideo == [w |-> 0, h |-> 0]
\* const vW = video.videoWidth || 640; const vH = video.videoHeight || 480
VW == IF video.w = 0 THEN 640 ELSE video.w
VH == IF video.h = 0 THEN 480 ELSE video.h

NoCardData == [caption |-> "", relationship |-> "", photoUrl |-> "undefined", photosCount |-> -1]
InitUi == [currentName |-> Unknown, confidence |-> 0] @@ NoCardData
InitCard == [side |-> "right", lastFlip |-> 0, top |-> NaNTop, lastY |-> 0, style |-> "initial"]
NoObs == [raws |-> <<>>, seen |-> {}, at |-> -1, prevAt |-> -1, reappeared |-> FALSE,
          before |-> [has |-> FALSE, name |-> Unknown, lastSeen |-> 0],
          cand |-> Unknown, box |-> <<0, 0, 0, 0>>]

NoCall == [arg |-> "boot", was |-> "boot", set |-> FALSE]
NoFace == <<0, 0, 0, 0>>
NoFrame == [at |-> -1, tids |-> {}, best |-> Unknown, face |-> NoFace,
            reset |-> FALSE, cover |-> -1]
NoGeo == [b |-> NoFace, W |-> 0, H |-> 0, sendW |-> 0, sendH |-> 0,
          out |-> NoFace, drawn |-> FALSE]

\* the component after its first render, before the effect runs
InitPage ==
  /\ trackHistory = EmptyMap
  /\ trackState = EmptyMap
  /\ smoothBoxes = EmptyMap
  /\ reqCounter = 0
  /\ lastHandledReq = 0
  /\ lastSpeakAt = 0
  /\ lastNameShown = Unknown
  /\ card = InitCard
  /\ status = "boot"
  /\ stat = NoCall
  /\ ui = InitUi
  /\ mounted = TRUE
  /\ started = 0
  /\ running = [s \in Sessions |-> FALSE]
  /\ pc = [s \in Sessions |-> "none"]
  /\ myReqId = [s \in Sessions |-> 0]
  /\ frameNow = [s \in Sessions |-> 0]
  /\ bestName = [s \in Sessions |-> Unknown]
  /\ timers = [s \in Sessions |-> <<>>]
  /\ now = 0
  /\ applied = <<>>
  /\ evt = [n |-> 0, s |-> 0, kind |-> "none", epoch |-> 0, handled |-> 0]
  /\ spoken = <<>>
  /\ trk = [t \in TrackIds |-> NoObs]
  /\ known = EmptyMap
  /\ frame = NoFrame
  /\ video = NoVideo

\* no request has reached the backend
NoEnroll == [pc |-> "none"]
NoSync == [pc |-> "none"]
InitBack == enroll = NoEnroll /\ sync = NoSync

Init == InitPage /\ geo = NoGeo /\ InitBack

\* ------------------------------------------------------------- status
\* (mutant) every call of safeSetStatus updates the UI state
DiffersAlways(last, s) == TRUE

\* lastStatusRef.current !== s
Differs(last, s) == last # s

\* safeSetStatus(s): if (lastStatusRef.current !== s) { lastStatusRef.current
\* = s; setStatus(s) }
safeSetStatus(s) ==
  /\ status' = IF Differs(status, s) THEN s ELSE status
  /\ stat' = [arg |-> s, was |-> status, set |-> Differs(status, s)]

\* ------------------------------------------------- effect, init, teardown
\* useEffect(() => { let running = true; ... init(); ... }, []): a run of the
\* effect; a re-run follows the cleanup of the run before it
EffectRun ==
  /\ mounted
  /\ started + 1 \in Sessions
  /\ started > 0 => ~running[started]
  /\ started' = started + 1
  /\ running' = [running EXCEPT ![started + 1] = TRUE]
  /\ safeSetStatus("requesting-camera")
  /\ pc' = [pc EXCEPT ![started + 1] = "gum"]
  /\ UNCHANGED <<refs, ui, mounted, locals, timers, now, obs, env>>

\* the effect's cleanup: running = false; on unmount the refs to the video
\* and canvas elements become null as well
Cleanup(unmount) ==
  /\ started > 0
  /\ running[started]
  /\ running' = [running EXCEPT ![started] = FALSE]
  /\ mounted' = (mounted /\ ~unmount)
  /\ UNCHANGED <<refs, status, stat, ui, started, pc, locals, timers, now, obs, env>>

\* loop(): if (!running || !videoRef.current) return; ... await toBlob
LoopEntry(s) == IF running[s] /\ mounted THEN "blob" ELSE "ended"

\* (mutant) a failed start of the camera falls through to loop()
CameraFailedLoops(s) == LoopEntry(s)

\* catch (e) { safeSetStatus("camera-error") }: init() ends there; nothing
\* is scheduled and nothing calls init() again
CameraFailed(s) == "camerr"

\* init(): getUserMedia settles
GumSettles(s, ok, d) ==
  /\ pc[s] = "gum"
  /\ now' = now + d
  /\ IF ok THEN UNCHANGED <<status, stat>> ELSE safeSetStatus("camera-error")
  /\ pc' = [pc EXCEPT ![s] = IF ~ok THEN CameraFailed(s)
                             ELSE IF running[s] THEN "play" ELSE "ended"]
  /\ UNCHANGED <<refs, ui, mounted, started, running, locals, timers, obs, env>>

\* init(): video.play() settles; on success loop() starts
PlaySettles(s, ok, d, size) ==
  /\ pc[s] = "play"
  /\ now' = now + d
  /\ video' = IF ok THEN size ELSE video
  /\ safeSetStatus(IF ok THEN "camera-on" ELSE "camera-error")
  /\ pc' = [pc EXCEPT ![s] = IF ok THEN LoopEntry(s) ELSE CameraFailed(s)]
  /\ UNCHANGED <<refs, ui, mounted, started, running, locals, timers, obs, geo, back>>

\* ------------------------------------------------------------ the loop
\* scheduleNext(): setTimeout(() => running && loop(), 125)
scheduleNext(tm, s, t) == [tm EXCEPT ![s] = Append(@, t + FRAME_MS)]

\* the timer fires, d ms late
TimerFires(s, d) ==
  /\ pc[s] = "done"
  /\ timers[s] # <<>>
  /\ now' = Max(now, Head(timers[s])) + d
  /\ timers' = [timers EXCEPT ![s] = Tail(@)]
  /\ pc' = [pc EXCEPT ![s] = LoopEntry(s)]
  /\ UNCHANGED <<refs, status, stat, ui, mounted, started, running, locals, obs, env>>

\* (mutant) the request takes the counter's value without incrementing it
NextEpochSame(c) == c

\* ++reqCounter.current
NextEpoch(c) == c + 1

\* toBlob resolves: const myReqId = ++reqCounter.current; fetch is issued
BlobResolves(s, cap) ==
  /\ pc[s] = "blob"
  /\ reqCounter < cap
  /\ reqCounter' = NextEpoch(reqCounter)
  /\ myReqId' = [myReqId EXCEPT ![s] = reqCounter']
  /\ pc' = [pc EXCEPT ![s] = "fetch"]
  /\ UNCHANGED <<tracks, lastHandledReq, lastSpeakAt, lastNameShown, card, status,
                 stat, ui, mounted, started, running, frameNow, bestName, timers, now, obs, env>>

\* (mutant) an error response sets the status whatever its epoch
IsNewerAlways(id, handled) == TRUE

\* myReqId > lastHandledReq.current
IsNewer(id, handled) == id > handled

\* (mutant) no response is ever taken for stale
IsStaleNever(id, handled) == FALSE

\* ignore stale responses: myReqId <= lastHandledReq.current
IsStale(id, handled) == id <= handled

\* the status an unsuccessful response asks for: cv-http-<status>, cv-nonjson
ErrorStatus(kind) == IF kind = "http" THEN "cv-http-500" ELSE "cv-nonjson"

\* (mutant) the catch block returns without scheduling
AfterCatchReturn(tm, s, t) == tm

\* timers after the catch block: safeSetStatus("cv-unreachable"); scheduleNext()
AfterCatch(tm, s, t) == scheduleNext(tm, s, t)

\* the recognition fetch settles: it rejects, or resolves with a non-2xx
\* status ("http"), a 2xx non-JSON content type ("nonjson") or 2xx JSON
FetchSettles(s, kind, d) ==
  /\ pc[s] = "fetch"
  /\ now' = now + d
  /\ evt' = [n |-> evt.n + 1, s |-> s, kind |-> kind, epoch |-> myReqId[s],
             handled |-> lastHandledReq]
  /\ IF kind = "reject"
     THEN /\ safeSetStatus("cv-unreachable")
          /\ timers' = AfterCatch(timers, s, now')
          /\ pc' = [pc EXCEPT ![s] = "done"]
          /\ UNCHANGED lastHandledReq
     ELSE IF kind \in {"http", "nonjson"}
     THEN /\ IF IsNewer(myReqId[s], lastHandledReq)
             THEN safeSetStatus(ErrorStatus(kind))
             ELSE UNCHANGED <<status, stat>>
          /\ lastHandledReq' = IF IsNewer(myReqId[s], lastHandledReq)
                               THEN myReqId[s] ELSE lastHandledReq
          /\ timers' = scheduleNext(timers, s, now')
          /\ pc' = [pc EXCEPT ![s] = "done"]
     ELSE IF IsStale(myReqId[s], lastHandledReq)
     THEN /\ timers' = scheduleNext(timers, s, now')
          /\ pc' = [pc EXCEPT ![s] = "done"]
          /\ UNCHANGED <<status, stat, lastHandledReq>>
     ELSE /\ lastHandledReq' = myReqId[s]
          /\ pc' = [pc EXCEPT ![s] = "json"]
          /\ UNCHANGED <<status, stat, timers>>
  /\ UNCHANGED <<tracks, reqCounter, lastSpeakAt, lastNameShown, card, ui, mounted,
                 started, running, locals, applied, spoken, trk, known, frame, env>>

\* ------------------------------------------------ processing one frame
\* what the frame's processing records about detection d of a track: the
\* last raw names (three at most) and the set of all raw names since the
\* track's entry was created, the
\* times of this and the previous appearance, whether more than STALE_MS lie
\* between them, the track's state before the frame, its candidate label,
\* and the box drawn from
ObsOne(o, d, nowMs, ts, cand) ==
  LET gap == o.at >= 0 /\ nowMs - o.at > STALE_MS
      raw == [name |-> d.name, conf |-> d.conf]
      all == IF d.track_id \notin DOMAIN ts THEN <<raw>> ELSE Append(o.raws, raw)
  IN [raws |-> IF Len(all) > 3 THEN Tail(all) ELSE all,
      seen |-> IF d.track_id \notin DOMAIN ts THEN {d.name} ELSE o.seen \cup {d.name},
      at |-> nowMs,
      prevAt |-> o.at,
      reappeared |-> gap,
      before |-> IF d.track_id \in DOMAIN ts
                 THEN [has |-> TRUE, name |-> ts[d.track_id].name,
                       lastSeen |-> ts[d.track_id].lastSeen]
                 ELSE NoObs.before,
      cand |-> cand[d.track_id],
      box |-> DisplayBox(d.bbox, VW, VH)]

RECURSIVE ObsAll(_, _, _, _, _)
ObsAll(t, dets, nowMs, ts, cand) ==
  IF dets = <<>> THEN t
  ELSE ObsAll([t EXCEPT ![Head(dets).track_id] = ObsOne(@, Head(dets), nowMs, ts, cand)],
              Tail(dets), nowMs, ts, cand)

\* the card element is rendered while currentName is a name
CardEl == mounted /\ ui.currentName # Unknown

\* the rectangle of the rendered card, in canvas coordinates: its style is
\* the initial one (top: calc(50% - 130px), right: 16px) until the loop
\* writes left/right and top
CardLeft(c, W) ==
  IF c.style = "left" THEN Px(PAD)
  ELSE IF c.style = "right" THEN Px(W) - Px(CARD_W) - Px(PAD)
  ELSE Px(W) - Px(CARD_W) - Px(16)
CardTop(c, H) == IF c.top = NaNTop THEN Px(H) \div 2 - Px(130) ELSE c.top

\* the rendered card contains the whole face rectangle
Covers(c, face, W, H) ==
  /\ CardLeft(c, W) <= face[1]
  /\ face[1] + face[3] <= CardLeft(c, W) + Px(CARD_W)
  /\ CardTop(c, H) <= face[2]
  /\ face[2] + face[4] <= CardTop(c, H) + Px(CARD_H)

\* what a processed frame records: its time and tracks, the best name (or
\* Unknown) and its face box, whether the frame ran the reset of the
\* display, and since when the rendered card has covered the best face at
\* every frame (-1: it does not)
FrameObs(f, dets, nowMs, didReset, shown, c) ==
  LET face == IF f.has THEN DisplayBox(f.best.bbox, VW, VH) ELSE NoFace
      covered == f.has /\ shown /\ Covers(c, face, VW, VH)
  IN [at |-> nowMs,
      tids |-> {dets[i].track_id : i \in DOMAIN dets},
      best |-> IF f.has THEN f.best.name ELSE Unknown,
      face |-> face,
      reset |-> didReset,
      cover |-> IF ~covered THEN -1
                ELSE IF frame.cover >= 0 THEN frame.cover ELSE nowMs]

\* stabilise, prune, draw, choose best, place the card: everything the loop
\* does with the detections at nowMs before it looks at lastNameShown
FrameResult(dets, nowMs) ==
  LET st == StabilizeAll([th |-> trackHistory, ts |-> trackState, dets |-> <<>>,
                          cand |-> EmptyMap, known |-> known], dets, nowMs)
      pr == Prune(st.th, st.ts, smoothBoxes, nowMs)
      best == Best(st.dets)
      has == HasBest(st.dets)
  IN [th |-> pr.th, ts |-> pr.ts,
      sb |-> DrawAll(pr.sb, st.dets, VW, VH),
      best |-> best, has |-> has,
      card |-> IF has
               THEN CardSnap(CardAvoid(card, best, nowMs, CardEl, VW, VH),
                             best, lastNameShown, CardEl, VW, VH)
               ELSE card,
      cand |-> st.cand, known |-> st.known]

\* (mutant) every frame with a best track is taken for a change of name
NameChangedAlways(best, last) == TRUE

\* best.name !== lastNameShown.current
NameChanged(best, last) == best.name # last

\* (mutant) every frame without a best track resets the display
NeedsResetAlways(last) == TRUE

\* lastNameShown.current !== "Unknown"
NeedsReset(last) == last # Unknown

\* r.json() settles: it rejects (res.throws) or resolves with the detections
JsonSettles(s, res, d) ==
  /\ pc[s] = "json"
  /\ now' = now + d
  /\ IF res.throws \/ ~mounted
     THEN \* a malformed body, or overlayRef.current is null: the catch block
          /\ safeSetStatus("cv-unreachable")
          /\ timers' = AfterCatch(timers, s, now')
          /\ pc' = [pc EXCEPT ![s] = "done"]
          /\ UNCHANGED <<tracks, lastSpeakAt, lastNameShown, card, ui, frameNow,
                         bestName, applied, trk, known, frame>>
     ELSE LET f == FrameResult(res.dets, now')
          IN /\ trackHistory' = f.th
             /\ trackState' = f.ts
             /\ smoothBoxes' = f.sb
             /\ applied' = Append(applied, myReqId[s])
             /\ trk' = ObsAll(trk, res.dets, now', trackState, f.cand)
             /\ known' = f.known
             /\ frameNow' = [frameNow EXCEPT ![s] = now']
             /\ IF f.has /\ NameChanged(f.best, lastNameShown)
                THEN /\ lastNameShown' = f.best.name
                     /\ safeSetStatus("recognized")
                     /\ ui' = [ui EXCEPT !.currentName = f.best.name,
                                         !.confidence = f.best.conf]
                     /\ card' = f.card
                     /\ bestName' = [bestName EXCEPT ![s] = f.best.name]
                     /\ pc' = [pc EXCEPT ![s] = "memfetch"]
                     /\ UNCHANGED timers
                ELSE IF ~f.has /\ NeedsReset(lastNameShown)
                THEN /\ lastNameShown' = Unknown
                     /\ ui' = [InitUi EXCEPT !.confidence = ui.confidence]
                     /\ safeSetStatus("searching")
                     \* the card element leaves the page with its style
                     /\ card' = [f.card EXCEPT !.top = NaNTop, !.style = "initial"]
                     /\ timers' = scheduleNext(timers, s, now')
                     /\ pc' = [pc EXCEPT ![s] = "done"]
                     /\ UNCHANGED bestName
                ELSE /\ IF f.has THEN UNCHANGED <<status, stat>>
                                 ELSE safeSetStatus("searching")
                     /\ card' = f.card
                     /\ timers' = scheduleNext(timers, s, now')
                     /\ pc' = [pc EXCEPT ![s] = "done"]
                     /\ UNCHANGED <<lastNameShown, ui, bestName>>
             /\ UNCHANGED lastSpeakAt
             /\ frame' = FrameObs(f, res.dets, now',
                                  ~f.has /\ NeedsReset(lastNameShown),
                                  mounted /\ ui'.currentName # Unknown, card')
  /\ UNCHANGED <<reqCounter, lastHandledReq, mounted, started, running, myReqId,
                 evt, spoken, env>>

\* (mutant) a failed lookup leaves the card data of the person shown before
NoMemoryKeeps(u) == u

\* setCaption(""); setRelationship(""); setPhotoUrl(undefined);
\* setPhotosCount(undefined)
NoMemory(u) == [currentName |-> u.currentName, confidence |-> u.confidence] @@ NoCardData

\* the directory lookup fetch(`${API}/memories?personId=...`) settles: it
\* rejects, or resolves not ok (a 404), or resolves ok
MemFetchSettles(s, kind, d) ==
  /\ pc[s] = "memfetch"
  /\ now' = now + d
  /\ IF kind = "ok"
     THEN /\ pc' = [pc EXCEPT ![s] = "memjson"]
          /\ UNCHANGED <<ui, timers>>
     ELSE /\ ui' = NoMemory(ui)
          /\ timers' = scheduleNext(timers, s, now')
          /\ pc' = [pc EXCEPT ![s] = "done"]
  /\ UNCHANGED <<refs, status, stat, mounted, started, running, locals, obs, env>>

\* cap = item.caption || `A favorite memory with ${best.name}.`
CaptionOf(item, name) == IF item.caption = "" THEN "A favorite memory" ELSE item.caption

\* nowMs - lastSpeakAt.current > speakCooldownMs
MaySpeak(nowMs, lastAt) == nowMs - lastAt > SPEAK_COOLDOWN_MS

\* q.json() settles: it rejects (item.throws) or resolves with the item
MemJsonSettles(s, item, d) ==
  /\ pc[s] = "memjson"
  /\ now' = now + d
  /\ IF item.throws
     THEN /\ ui' = NoMemory(ui)
          /\ UNCHANGED <<lastSpeakAt, spoken>>
     ELSE /\ ui' = [currentName |-> ui.currentName, confidence |-> ui.confidence,
                    caption |-> CaptionOf(item, bestName[s]),
                    relationship |-> item.relationship,
                    photoUrl |-> IF item.photos > 0 THEN "url" ELSE "undefined",
                    photosCount |-> item.photos]
          /\ lastSpeakAt' = IF MaySpeak(frameNow[s], lastSpeakAt)
                            THEN frameNow[s] ELSE lastSpeakAt
          /\ spoken' = IF MaySpeak(frameNow[s], lastSpeakAt)
                       THEN Append(spoken, [name |-> bestName[s], at |-> now',
                                            frame |-> frameNow[s]])
                       ELSE spoken
  /\ timers' = scheduleNext(timers, s, now')
  /\ pc' = [pc EXCEPT ![s] = "done"]
  /\ UNCHANGED <<tracks, reqCounter, lastHandledReq, lastNameShown, card, status,
                 stat, mounted, started, running, locals, applied, evt, trk, known, frame, env>>

\* ------------------------------------------------- the specifications
Parsed(dets) == [throws |-> FALSE, dets |-> dets]
BadBody == [throws |-> TRUE, dets |-> <<>>]
Item(c, r, n) == [throws |-> FALSE, caption |-> c, relationship |-> r, photos |-> n]
BadItem == [throws |-> TRUE, caption |-> "", relationship |-> "", photos |-> 0]

\* the camera is granted a second after the page asked for it
StartDelays == {1000}
FetchKinds == {"reject", "http", "nonjson", "json"}
MemKinds == {"reject", "notok", "ok"}

\* Spec: the request protocol.  Every run of the effect, every outcome of
\* every await, a few frames.
ProtoBodies == {BadBody, Parsed(<<>>),
                Parsed(<<Det(1, BoxNear, "Alice", 90)>>),
                Parsed(<<Det(2, BoxFar, "Bob", 90)>>)}
ProtoItems == {BadItem, Item("cap", "rel", 1)}

Next ==
  \/ EffectRun
  \/ \E u \in BOOLEAN : Cleanup(u)
  \/ \E s \in Sessions, ok \in BOOLEAN, d \in StartDelays : GumSettles(s, ok, d)
  \/ \E s \in Sessions, ok \in BOOLEAN : PlaySettles(s, ok, 0, IdealSize)
  \/ \E s \in Sessions : TimerFires(s, 0)
  \/ \E s \in Sessions : BlobResolves(s, MaxReq)
  \/ \E s \in Sessions, k \in FetchKinds : FetchSettles(s, k, 0)
  \/ \E s \in Sessions, b \in ProtoBodies : JsonSettles(s, b, 0)
  \/ \E s \in Sessions, k \in MemKinds : MemFetchSettles(s, k, 0)
  \/ \E s \in Sessions, i \in ProtoItems : MemJsonSettles(s, i, 0)

Spec == Init /\ [][Next]_vars

\* TrackSpec: one run of the effect whose requests all succeed; the frames
\* carry no detection or one track, named with high or low confidence or
\* unknown; a timer fires on time, 300 ms late or 2000 ms late.
TrackBodies == {Parsed(<<>>),
                Parsed(<<Det(1, BoxNear, "Alice", 90)>>),
                Parsed(<<Det(1, BoxFar, "Bob", 30)>>),
                Parsed(<<Det(1, BoxNear, Unknown, 30)>>),
                Parsed(<<Det(1, BoxNear, Unknown, 90)>>)}
TrackDelays == {0, 300, 2000}
TrackItems == {Item("cap", "rel", 1)}

TrackNext ==
  \/ EffectRun
  \/ \E d \in StartDelays : GumSettles(1, TRUE, d)
  \/ PlaySettles(1, TRUE, 0, IdealSize)
  \/ \E d \in TrackDelays : TimerFires(1, d)
  \/ BlobResolves(1, MaxFrames)
  \/ FetchSettles(1, "json", 0)
  \/ \E b \in TrackBodies : JsonSettles(1, b, 0)
  \/ \E k \in {"notok", "ok"} : MemFetchSettles(1, k, 0)
  \/ \E i \in TrackItems : MemJsonSettles(1, i, 0)

TrackSpec == Init /\ [][TrackNext]_vars

\* NarrSpec: one run of the effect whose requests all succeed; a frame shows
\* nobody, Alice or Bob; the directory answers at once or after two seconds,
\* with a memory, with an empty one, or with a 404, or cannot be reached.
NarrBodies == {Parsed(<<>>),
               Parsed(<<Det(1, BoxNear, "Alice", 90)>>),
               Parsed(<<Det(1, BoxNear, "Bob", 90)>>)}
NarrDelays == {0, 2000}
NarrItems == {Item("cap", "rel", 1), Item("", "", 0)}

NarrNext ==
  \/ EffectRun
  \/ \E d \in StartDelays : GumSettles(1, TRUE, d)
  \/ PlaySettles(1, TRUE, 0, IdealSize)
  \/ TimerFires(1, 0)
  \/ BlobResolves(1, MaxNarrFrames)
  \/ FetchSettles(1, "json", 0)
  \/ \E b \in NarrBodies : JsonSettles(1, b, 0)
  \/ \E k \in MemKinds, d \in NarrDelays : MemFetchSettles(1, k, d)
  \/ \E i \in NarrItems : MemJsonSettles(1, i, 0)

NarrSpec == Init /\ [][NarrNext]_vars

\* CardSpec: one run of the effect whose requests all succeed, on a camera
\* of the ideal size or a small one; a frame shows nobody, one face on the
\* right or on the left, or two faces; a timer fires on time or 500 ms late.
CardBodies == {Parsed(<<>>),
               Parsed(<<Det(1, BoxRight, "Alice", 90)>>),
               Parsed(<<Det(1, BoxLeft, "Alice", 90)>>),
               Parsed(<<Det(1, BoxRight, "Bob", 90)>>),
               Parsed(<<Det(1, BoxRight, "Alice", 70), Det(2, BoxLeft, "Bob", 90)>>),
               Parsed(<<Det(1, BoxRight, Unknown, 30)>>)}
CardDelays == {0, 500}
VideoSizes == {IdealSize, SmallSize}

CardNext ==
  \/ EffectRun
  \/ \E d \in StartDelays : GumSettles(1, TRUE, d)
  \/ \E v \in VideoSizes : PlaySettles(1, TRUE, 0, v)
  \/ \E d \in CardDelays : TimerFires(1, d)
  \/ BlobResolves(1, MaxCardFrames)
  \/ FetchSettles(1, "json", 0)
  \/ \E b \in CardBodies : JsonSettles(1, b, 0)
  \/ MemFetchSettles(1, "ok", 0)
  \/ \E i \in TrackItems : MemJsonSettles(1, i, 0)

CardSpec == Init /\ [][CardNext]_vars

\* VoteSpec: one run of the effect whose requests all succeed; every frame
\* shows track 1 with a low confidence, named Alice or Bob; a timer fires
\* on time or 300 ms late.
VoteBodies == {Parsed(<<Det(1, BoxNear, "Alice", 30)>>),
               Parsed(<<Det(1, BoxNear, "Bob", 30)>>)}
VoteDelays == {0, 300}

VoteNext ==
  \/ EffectRun
  \/ \E d \in StartDelays : GumSettles(1, TRUE, d)
  \/ PlaySettles(1, TRUE, 0, IdealSize)
  \/ \E d \in VoteDelays : TimerFires(1, d)
  \/ BlobResolves(1, MaxVoteFrames)
  \/ FetchSettles(1, "json", 0)
  \/ \E b \in VoteBodies : JsonSettles(1, b, 0)
  \/ MemFetchSettles(1, "ok", 0)
  \/ \E i \in TrackItems : MemJsonSettles(1, i, 0)

VoteSpec == Init /\ [][VoteNext]_vars

\* RecoverSpec: one run of the effect; a recognition request fails in the
\* network, is answered with an error status, or succeeds with nobody or
\* Alice in the frame.
RecoverKinds == {"reject", "http", "json"}
RecoverBodies == {Parsed(<<>>), Parsed(<<Det(1, BoxNear, "Alice", 90)>>)}

RecoverNext ==
  \/ EffectRun
  \/ \E d \in StartDelays : GumSettles(1, TRUE, d)
  \/ PlaySettles(1, TRUE, 0, IdealSize)
  \/ TimerFires(1, 0)
  \/ BlobResolves(1, MaxRecoverFrames)
  \/ \E k \in RecoverKinds : FetchSettles(1, k, 0)
  \/ \E b \in RecoverBodies : JsonSettles(1, b, 0)
  \/ MemFetchSettles(1, "ok", 0)
  \/ \E i \in TrackItems : MemJsonSettles(1, i, 0)

RecoverSpec == Init /\ [][RecoverNext]_vars

\* PairSpec: one run of the effect whose requests all succeed; a frame shows
\* nobody, track 1, track 2 or both; track 1 is Alice with a high confidence
\* or unknown, track 2 is Bob with a low one; a timer fires on time or 2000
\* ms late; the directory has no entry.
PairBodies == {Parsed(<<>>),
               Parsed(<<Det(1, BoxNear, "Alice", 90)>>),
               Parsed(<<Det(1, BoxNear, Unknown, 30)>>),
               Parsed(<<Det(2, BoxFar, "Bob", 30)>>),
               Parsed(<<Det(1, BoxNear, "Alice", 90), Det(2, BoxFar, "Bob", 30)>>)}
PairDelays == {0, 2000}

PairNext ==
  \/ EffectRun
  \/ \E d \in StartDelays : GumSettles(1, TRUE, d)
  \/ PlaySettles(1, TRUE, 0, IdealSize)
  \/ \E d \in PairDelays : TimerFires(1, d)
  \/ BlobResolves(1, MaxPairFrames)
  \/ FetchSettles(1, "json", 0)
  \/ \E b \in PairBodies : JsonSettles(1, b, 0)
  \/ MemFetchSettles(1, "notok", 0)

PairSpec == Init /\ [][PairNext]_vars

\* the cleanup runs while the session's recognition request is in flight
CleanupInFlight(unmount) ==
  /\ started > 0
  /\ pc[started] = "fetch"
  /\ Cleanup(unmount)

\* TeardownSpec: the runs of the effect, each torn down, if at all, while
\* its recognition request is in flight (the page is left, or the effect is
\* re-run); every outcome of every await.
TeardownNext ==
  \/ EffectRun
  \/ \E u \in BOOLEAN : CleanupInFlight(u)
  \/ \E s \in Sessions, d \in StartDelays : GumSettles(s, TRUE, d)
  \/ \E s \in Sessions : PlaySettles(s, TRUE, 0, IdealSize)
  \/ \E s \in Sessions : TimerFires(s, 0)
  \/ \E s \in Sessions : BlobResolves(s, MaxTeardownFrames)
  \/ \E s \in Sessions, k \in FetchKinds : FetchSettles(s, k, 0)
  \/ \E s \in Sessions, b \in ProtoBodies : JsonSettles(s, b, 0)
  \/ \E s \in Sessions, k \in MemKinds : MemFetchSettles(s, k, 0)
  \/ \E s \in Sessions, i \in ProtoItems : MemJsonSettles(s, i, 0)

TeardownSpec == Init /\ [][TeardownNext]_vars

\* GeomSpec: the draw loop's mapping of one detection box of a track seen
\* for the first time, for boxes and sizes that scale to whole pixels: the
\* 320x240 sample of the earlier revision on 1280x720 and 640x480 canvases,
\* and the 288x162 sample of a 1280x720 video.
GeoSizes == {[W |-> 1280, H |-> 720, sendW |-> 320, sendH |-> 240],
             [W |-> 640, H |-> 480, sendW |-> 320, sendH |-> 240]}
GeoCoords == {0, 10, 50, 90}
GeoSizesNow == {[W |-> IDEAL_W, H |-> IDEAL_H, sendW |-> SEND_W,
                 sendH |-> SendH(IDEAL_W, IDEAL_H)]}
GeoCoordsNow == {0, 9, 45, 90}
GeoInput(b, z) == [b |-> b, W |-> z.W, H |-> z.H, sendW |-> z.sendW,
                   sendH |-> z.sendH, out |-> NoFace, drawn |-> FALSE]
GeoInputs ==
  {GeoInput(<<x, y, w, h>>, z) :
     x \in GeoCoords, y \in {10, 50}, w \in {10, 50}, h \in {10, 50}, z \in GeoSizes}
  \cup
  {GeoInput(<<x, y, w, h>>, z) :
     x \in GeoCoordsNow, y \in {9, 45}, w \in {9, 45}, h \in {9, 45}, z \in GeoSizesNow}

GeomInit == InitPage /\ geo \in GeoInputs /\ InitBack

\* b = scaleBBox(d.bbox, ...); b = mirrorBBox(b, canvas.width);
\* b = emaBox(d.track_id, b) for a track that has no smoothed box
DrawFirstSeen ==
  /\ ~geo.drawn
  /\ geo' = [geo EXCEPT
               !.out = emaBoxOut(smoothBoxes, 1,
                         mirrorBBox(scaleBBox(geo.b, geo.W, geo.H, geo.sendW, geo.sendH),
                                    geo.W)),
               !.drawn = TRUE]
  /\ UNCHANGED <<refs, status, stat, ui, mounted, started, running, pc, locals, timers,
                 now, obs, video, back>>

GeomNext == DrawFirstSeen

GeomSpec == GeomInit /\ [][GeomNext]_vars

\* ------------------------------------------------ backend: POST /api/people
\* a request: whether name, relationship and activity are all present, the
\* name and relationship, and the number of uploaded files
EnrollRequest(full, n, r, k) ==
  [pc |-> "received", full |-> full, name |-> n, relationship |-> r, files |-> k,
   embeddings |-> <<>>, centroid |-> <<>>, urls |-> <<>>, docs |-> <<>>,
   steps |-> <<>>,
   res |-> [code |-> 0, ok |-> FALSE, error |-> "", id |-> "", urls |-> <<>>]]

\* res.status(code).json({ ok: false, error })
Refuse(e, code, error) ==
  [e EXCEPT !.pc = "answered",
            !.res = [code |-> code, ok |-> FALSE, error |-> error, id |-> "", urls |-> <<>>]]

\* `${name.toLowerCase().replace(/\s+/g, "_")}__${relationship.toLowerCase()}`
DocId(n, r) == <<n, "__", r>>

\* avg[i] = sum of e[i] / count; centroid = l2norm(avg).  The centroid is
\* kept as the sum and the count of the vectors it is the normalised mean of
Centroid(es) ==
  [sum |-> << es[1][1] + es[2][1] + es[3][1], es[1][2] + es[2][2] + es[3][2] >>,
   of |-> Len(es)]

\* the identifier `admin` in routes/people.ts: the file imports express,
\* multer, undici's fetch and uploadPhotoAndGetUrl, and declares no admin
AdminBound == FALSE

\* the handler starts: field and file checks, then the first /embed call
EnrollStarts ==
  /\ enroll.pc = "received"
  /\ enroll' = IF ~enroll.full
                THEN Refuse(enroll, 400, "Missing name, relationship, or activity")
                ELSE IF enroll.files < 3
                THEN Refuse(enroll, 400, "Must upload at least 3 photos")
                ELSE [enroll EXCEPT !.pc = "embed"]
  /\ UNCHANGED <<refs, status, stat, ui, mounted, started, running, pc, locals, timers,
                 now, obs, video, geo, sync>>

\* steps 4 and 5 and the answer, entered when the third upload has resolved:
\* peopleCol.doc(id).set({ ..., createdAt: admin.firestore... }) evaluates its
\* argument first; with `admin` unbound that throws a ReferenceError into
\* the catch block, before set() is called
WriteAndAnswer(e) ==
  LET id == DocId(e.name, e.relationship)
  IN IF ~AdminBound
     THEN Refuse([e EXCEPT !.steps = Append(@, "write")], 500, "admin is not defined")
     ELSE [e EXCEPT !.pc = "answered",
                    !.docs = Append(@, id),
                    !.steps = @ \o <<"write", "sync">>,
                    !.res = [code |-> 200, ok |-> TRUE, error |-> "", id |-> id,
                             urls |-> e.urls]]

\* a call of the CV service's /embed settles: the fetch rejects or the body
\* is not JSON ("throws"), the response is not ok or carries a reason
\* ("reason"), or it carries an embedding v
EmbedSettles(kind, v) ==
  /\ enroll.pc = "embed"
  /\ enroll' =
       IF kind = "throws" THEN Refuse(enroll, 500, "fetch failed")
       ELSE IF kind = "reason" THEN Refuse(enroll, 500, "CV Embed failed")
       ELSE LET es == Append(enroll.embeddings, v)
                e1 == [enroll EXCEPT !.embeddings = es, !.steps = Append(@, "embed")]
            IN IF Len(es) < 3 THEN e1
               ELSE [e1 EXCEPT !.centroid = Centroid(es),
                               !.steps = Append(@, "centroid"),
                               !.pc = "upload"]
  /\ UNCHANGED <<refs, status, stat, ui, mounted, started, running, pc, locals, timers,
                 now, obs, video, geo, sync>>

\* uploadPhotoAndGetUrl settles: it rejects, or resolves with a URL or with
\* an empty one
UploadSettles(kind) ==
  /\ enroll.pc = "upload"
  /\ enroll' =
       IF kind = "throws" THEN Refuse(enroll, 500, "upload failed")
       ELSE IF kind = "empty" THEN Refuse(enroll, 500, "Azure upload failed")
       ELSE LET us == Append(enroll.urls, <<"url", Len(enroll.urls) + 1>>)
                e1 == [enroll EXCEPT !.urls = us, !.steps = Append(@, "upload")]
            IN IF Len(us) < 3 THEN e1 ELSE WriteAndAnswer(e1)
  /\ UNCHANGED <<refs, status, stat, ui, mounted, started, running, pc, locals, timers,
                 now, obs, video, geo, sync>>

\* EnrollSpec: one request with or without its fields and with two to four
\* files; every outcome of every call the handler awaits.
EnrollNames == {"alice", "bob"}
EnrollFiles == {2, 3, 4}
EmbedVectors == {<<3, 4>>, <<4, 3>>}
EmbedKinds == {"throws", "reason", "ok"}
UploadKinds == {"throws", "empty", "url"}

EnrollInit ==
  /\ InitPage /\ geo = NoGeo /\ sync = NoSync
  /\ enroll \in {EnrollRequest(f, n, "friend", k) :
                    f \in BOOLEAN, n \in EnrollNames, k \in EnrollFiles}

EnrollNext ==
  \/ EnrollStarts
  \/ \E k \in EmbedKinds, v \in EmbedVectors : EmbedSettles(k, v)
  \/ \E k \in UploadKinds : UploadSettles(k)

EnrollSpec == EnrollInit /\ [][EnrollNext]_vars

\* ------------------------------- backend: syncGalleryFromFirestore
\* a SyncResult: ok, synced_names, status (0: none), error
Result(ok, names, code, error) ==
  [ok |-> ok, names |-> names, status |-> code, error |-> error]

\* let lastResult: SyncResult = { ok: false }
FirstResult == Result(FALSE, {}, 0, "")

\* a call syncGalleryFromFirestore(attempts, delayMs, expectName); expect is
\* "" when no name is expected; reqs counts the sync requests sent and slept
\* the waits of delayMs
SyncCall(attempts, expect) ==
  [pc |-> "called", attempts |-> attempts, expect |-> expect, i |-> 0,
   reqs |-> 0, slept |-> 0,
   lastResult |-> FirstResult, ret |-> FirstResult]

\* !expectName || names.includes(expectName)
Present(expect, names) == expect = "" \/ expect \in names

\* (mutant) no retry: the function returns after the first attempt
AfterAttemptGivesUp(sy) == [sy EXCEPT !.pc = "returned", !.ret = sy.lastResult]

\* the end of the loop body: sleep before a further attempt, or leave the
\* loop and return lastResult
AfterAttempt(sy) ==
  IF sy.i < sy.attempts - 1
  THEN [sy EXCEPT !.pc = "sleep", !.slept = @ + 1]
  ELSE [sy EXCEPT !.pc = "returned", !.ret = sy.lastResult]

\* the function is entered: for (let i = 0; i < attempts; i++)
SyncStarts ==
  /\ sync.pc = "called"
  /\ sync' = IF 0 < sync.attempts
              THEN [sync EXCEPT !.pc = "fetch", !.reqs = @ + 1]
              ELSE [sync EXCEPT !.pc = "returned", !.ret = sync.lastResult]
  /\ UNCHANGED <<refs, status, stat, ui, mounted, started, running, pc, locals, timers,
                 now, obs, video, geo, enroll>>

\* the fetch of an attempt settles: it rejects or its body cannot be read
\* ("throws"), it resolves not ok ("notok"), or it resolves with the JSON
\* body `body`
SyncFetchSettles(kind, body) ==
  /\ sync.pc = "fetch"
  /\ sync' =
       IF kind = "throws"
       THEN AfterAttempt([sync EXCEPT !.lastResult = Result(FALSE, {}, 0, "error")])
       ELSE IF kind = "notok"
       THEN AfterAttempt([sync EXCEPT !.lastResult = Result(FALSE, {}, 500, "text")])
       ELSE LET json == Result(body.ok, body.names, 200, "")
            IN IF Present(sync.expect, json.names)
               THEN [sync EXCEPT !.pc = "returned", !.lastResult = json, !.ret = json]
               ELSE AfterAttempt([sync EXCEPT !.lastResult = json])
  /\ UNCHANGED <<refs, status, stat, ui, mounted, started, running, pc, locals, timers,
                 now, obs, video, geo, enroll>>

\* await sleep(delayMs) is over: i++
SleepEnds ==
  /\ sync.pc = "sleep"
  /\ sync' = [sync EXCEPT !.pc = "fetch", !.i = @ + 1, !.reqs = @ + 1]
  /\ UNCHANGED <<refs, status, stat, ui, mounted, started, running, pc, locals, timers,
                 now, obs, video, geo, enroll>>

\* SyncSpec: one call with up to MaxAttempts attempts, expecting "alice",
\* "carol" or no name; the CV service answers with a gallery with or without alice,
\* with a failure report, with an error status, or not at all.
SyncExpects == {"", "alice", "carol"}
SyncKinds == {"throws", "notok", "json"}
SyncBodies == {[ok |-> TRUE, names |-> {}],
               [ok |-> TRUE, names |-> {"bob"}],
               [ok |-> TRUE, names |-> {"alice", "bob"}],
               [ok |-> FALSE, names |-> {}]}

SyncInit ==
  /\ InitPage /\ geo = NoGeo /\ enroll = NoEnroll
  /\ sync \in {SyncCall(a, e) : a \in 0..MaxAttempts, e \in SyncExpects}

SyncNext ==
  \/ SyncStarts
  \/ \E k \in SyncKinds, b \in SyncBodies : SyncFetchSettles(k, b)
  \/ SleepEnds

SyncSpec == SyncInit /\ [][SyncNext]_vars

\* ================================================================ claims
\* ---- the request protocol (Spec)

\* a recognition request of session evt.s has just completed in this step
Completes(kinds) == evt'.n # evt.n /\ evt'.kind \in kinds
\* exactly one timer was added for the session of the completion, 125 ms out
OneMoreTimer == timers' = [timers EXCEPT ![evt'.s] = Append(@, now' + 125)]

\* C1: the epochs whose detections are processed (stabilisation, drawing, card
\* placement, narration) form a strictly increasing sequence: an older frame's
\* result is never applied after a newer one's.
C1_AppliedEpochsIncrease ==
  \A i, j \in DOMAIN applied : i < j => applied[i] < applied[j]

\* C2: a successful JSON response that completes with an epoch at or below
\* the handled marker changes nothing: not the status, the displayed name and
\* caption, the three track maps, the card placement, the narration state or
\* the handled marker; its only effect is one scheduled next cycle.
C2_StaleDiscarded ==
  [][ (Completes({"json"}) /\ evt'.epoch <= evt'.handled)
      => /\ UNCHANGED <<status, ui, trackState, trackHistory, smoothBoxes, card,
                        lastSpeakAt, lastNameShown, spoken, lastHandledReq>>
         /\ UNCHANGED <<reqCounter, mounted, started, running, locals, applied>>
         /\ OneMoreTimer
         /\ pc'[evt'.s] = "done" ]_vars

\* a stale successful response has completed
C2_Witness == evt.kind = "json" /\ evt.epoch <= evt.handled /\ pc[evt.s] = "done"

\* C3: a non-2xx or non-JSON response sets the status to its error code when
\* its epoch is above the handled marker and leaves the status alone when it
\* is not; either way one next cycle is scheduled and no track map changes.
C3_ErrorStatusGated ==
  [][ Completes({"http", "nonjson"})
      => /\ evt'.epoch > evt'.handled =>
              status' = (IF evt'.kind = "http" THEN "cv-http-500" ELSE "cv-nonjson")
         /\ evt'.epoch <= evt'.handled => status' = status
         /\ OneMoreTimer
         /\ pc'[evt'.s] = "done"
         /\ UNCHANGED <<trackState, trackHistory, smoothBoxes>> ]_vars

\* an error response older than the handled marker has completed while the
\* status showed something else
C3_Witness ==
  /\ evt.kind \in {"http", "nonjson"}
  /\ evt.epoch <= evt.handled
  /\ status \notin {"cv-http-500", "cv-nonjson"}

\* C10: an iteration that issued its request and has returned, whatever the
\* outcome, left exactly one timer behind; no session ever has two timers, a
\* timer is pending only between iterations, and the chain of a session that
\* issued a request ends only when the session is torn down.
C10_OneNextIteration ==
  \A s \in Sessions :
    /\ Len(timers[s]) <= 1
    /\ pc[s] = "done" <=> Len(timers[s]) = 1
    /\ (pc[s] = "ended" /\ myReqId[s] > 0) => ~(running[s] /\ mounted)

\* an iteration ended by an exception while processing (the body did not
\* parse) and by a network failure, each with its timer pending
C10_Witness ==
  \E s \in Sessions :
    /\ pc[s] = "done" /\ Len(timers[s]) = 1 /\ running[s]
    /\ evt.s = s /\ evt.kind \in {"json", "reject"} /\ status = "cv-unreachable"

\* ---- track stabilisation (TrackSpec)

\* the value with most occurrences in window w, the first seen among equals
WindowMajority(w) ==
  w[CHOOSE i \in DOMAIN w :
      \A j \in DOMAIN w :
        \/ CountIn(w, w[j]) < CountIn(w, w[i])
        \/ (CountIn(w, w[j]) = CountIn(w, w[i]) /\ i <= j)]
LastTwo(q) == IF Len(q) > 2 THEN SubSeq(q, Len(q) - 1, Len(q)) ELSE q
RawNames(o) == [i \in DOMAIN o.raws |-> o.raws[i].name]
\* the retained history at the track's last frame and at the frame before
WindowNow(o) == LastTwo(RawNames(o))
WindowBefore(o) == LastTwo(SubSeq(RawNames(o), 1, Len(o.raws) - 1))
RawNow(o) == o.raws[Len(o.raws)]
\* raw name if confident, else the majority of the retained history
CandidateNow(o) ==
  IF RawNow(o).conf >= 62 THEN RawNow(o).name ELSE WindowMajority(WindowNow(o))
\* the tracks whose state was committed by the frame that last showed them
Committed == {t \in TrackIds : trk[t].at >= 0 /\ t \in DOMAIN trackState}
Label(t) == trackState[t].name
\* the hysteresis rule applies at the track's last frame and keeps the name
HeldBack(t) ==
  /\ trk[t].before.has
  /\ trk[t].before.name # Unknown
  /\ trk[t].at - trk[t].before.lastSeen < 500
  /\ Label(t) = trk[t].before.name
\* one name was the majority of the retained history in the last two frames
MajorityTwice(t) ==
  /\ Len(trk[t].raws) >= 2
  /\ WindowMajority(WindowNow(trk[t])) = WindowMajority(WindowBefore(trk[t]))

\* C4 (as claimed): when a name N has been the majority of the retained
\* history for two consecutive frames of a track, and the frame's confidence
\* is below ACCEPT_CONF, the label committed in that frame is N.
C4_MajorityTwiceIsLabel ==
  \A t \in Committed :
    (MajorityTwice(t) /\ RawNow(trk[t]).conf < 62)
      => Label(t) = WindowMajority(WindowNow(trk[t]))

\* C4 (amended): the same, except that when N is the unknown sentinel the
\* hysteresis rule may keep the track's previous name, seen less than HOLD_MS
\* before.
C4_MajorityTwiceIsLabelOrHeld ==
  \A t \in Committed :
    (MajorityTwice(t) /\ RawNow(trk[t]).conf < 62)
      => \/ Label(t) = WindowMajority(WindowNow(trk[t]))
         \/ (WindowMajority(WindowNow(trk[t])) = Unknown /\ HeldBack(t))

\* a name was the majority twice while the low-confidence raw name differed
C4_Witness ==
  \E t \in Committed :
    /\ MajorityTwice(t) /\ RawNow(trk[t]).conf < 62
    /\ WindowMajority(WindowNow(trk[t])) # Unknown
    /\ RawNow(trk[t]).name # WindowMajority(WindowNow(trk[t]))
    /\ Label(t) = WindowMajority(WindowNow(trk[t]))

\* C5 (as claimed): a detection with confidence >= ACCEPT_CONF sets the
\* track's label, in that frame, to the detection's raw name.
C5_ConfidentIsLabel ==
  \A t \in Committed : RawNow(trk[t]).conf >= 62 => Label(t) = RawNow(trk[t]).name

\* C5 (amended): the same, except that a confident detection named with the
\* unknown sentinel is overridden by the hysteresis rule when the track had a
\* name less than HOLD_MS before.
C5_ConfidentIsLabelOrHeld ==
  \A t \in Committed :
    RawNow(trk[t]).conf >= 62
      => \/ Label(t) = RawNow(trk[t]).name
         \/ (RawNow(trk[t]).name = Unknown /\ HeldBack(t))

\* a confident first detection of a track, and a confident detection that
\* replaces another name
C5_Witness ==
  \E t \in Committed :
    /\ RawNow(trk[t]).conf >= 62 /\ RawNow(trk[t]).name # Unknown
    /\ Label(t) = RawNow(trk[t]).name
    /\ (~trk[t].before.has \/ trk[t].before.name # RawNow(trk[t]).name)

\* C6: when a track has a name N and its next frame, less than HOLD_MS after
\* its previous frame, has the unknown sentinel as candidate, the label stays N.
C6_HoldKeepsName ==
  \A t \in Committed :
    ( /\ trk[t].before.has /\ trk[t].before.name # Unknown
      /\ trk[t].prevAt >= 0 /\ trk[t].at - trk[t].prevAt < 500
      /\ CandidateNow(trk[t]) = Unknown )
      => Label(t) = trk[t].before.name

C6_Witness ==
  \E t \in Committed :
    /\ trk[t].before.has /\ trk[t].before.name # Unknown
    /\ trk[t].prevAt >= 0 /\ trk[t].at - trk[t].prevAt < 500
    /\ CandidateNow(trk[t]) = Unknown
    /\ Label(t) = trk[t].before.name

\* C7: once HOLD_MS has passed since a track last had a name as candidate,
\* the label committed for it is the unknown sentinel.
C7_HoldExpires ==
  \A t \in Committed :
    (t \in DOMAIN known /\ trackState[t].lastSeen - known[t] >= 500)
      => Label(t) = Unknown

\* C8: after every processed frame, a track last seen more than 2000 ms
\* before the frame has no entry in any of the three maps, and the two other
\* maps hold nothing that TrackState lacks.
C8_StaleTracksGone ==
  /\ \A t \in TrackIds :
       (trk[t].at >= 0 /\ frame.at - trk[t].at > 2000)
         => /\ t \notin DOMAIN trackState
            /\ t \notin DOMAIN trackHistory
            /\ t \notin DOMAIN smoothBoxes
  /\ DOMAIN trackHistory \subseteq DOMAIN trackState
  /\ DOMAIN smoothBoxes \subseteq DOMAIN trackState

\* a frame was processed more than 2000 ms after a track's last appearance
C8_Witness ==
  \E t \in TrackIds :
    /\ trk[t].at >= 0 /\ frame.at - trk[t].at > 2000
    /\ t \notin DOMAIN smoothBoxes

\* C9: a track that reappears more than 2000 ms after its last appearance is
\* a new track: its label is the one a history of the new raw name alone
\* gives (that name), and its smoothed box is the new box.
C9_ReappearsAsNew ==
  \A t \in Committed :
    trk[t].reappeared
      => /\ Label(t) = RawNow(trk[t]).name
         /\ smoothBoxes[t] = trk[t].box

\* ---- hung requests and teardown (Spec)

\* C11: a recognition request that never completes does not block the
\* engine: while a request of a running session is in flight, the session's
\* next cycle is already scheduled, so that a later request is issued whether
\* or not the request in flight ever completes.
C11_HungDoesNotBlock ==
  \A s \in Sessions :
    (pc[s] = "fetch" /\ running[s] /\ mounted) => timers[s] # <<>>

\* C12: once a session is torn down, no loop iteration of it starts and it
\* issues no recognition request, wherever its chain stood at teardown.
C12_NothingAfterTeardown ==
  [][ \A s \in Sessions :
        ~running[s] => /\ pc'[s] = "blob" => pc[s] = "blob"
                       /\ myReqId'[s] = myReqId[s] ]_vars

\* what the guards do give: once a session is torn down, no loop iteration
\* of it starts and an ended chain stays ended; a request is issued only by
\* the iteration that was encoding its frame when the session was torn down
ChainStopsAfterTeardown ==
  [][ \A s \in Sessions :
        ~running[s] => /\ pc'[s] = "blob" => pc[s] = "blob"
                       /\ myReqId'[s] # myReqId[s] => pc[s] = "blob"
                       /\ pc[s] = "ended" => pc'[s] = "ended" ]_vars

\* a session that had issued requests was torn down, its pending timer fired
\* and started nothing
TornDownAndEnded ==
  \E s \in Sessions :
    ~running[s] /\ pc[s] = "ended" /\ myReqId[s] > 0 /\ timers[s] = <<>>

\* ---- narration (NarrSpec)

\* any two utterances were triggered for frames processed more than the
\* cooldown apart
UtteranceFramesApart ==
  \A i, j \in DOMAIN spoken :
    i < j => spoken[j].frame - spoken[i].frame > 1200

\* C13: when two consecutive processed frames, less than 1200 ms apart, have
\* the same best name, the second starts no directory lookup and triggers no
\* utterance, so that at most one utterance (the first frame's) is triggered
\* for the two; and no two utterances belong to frames within the cooldown.
C13_SameNameOneUtterance ==
  /\ []UtteranceFramesApart
  /\ [][ ( /\ applied' # applied
           /\ frame'.best # Unknown /\ frame'.best = frame.best
           /\ frame'.at - frame.at < 1200 )
        => /\ spoken' = spoken
           /\ \A s \in Sessions :
                (pc[s] = "json" /\ pc'[s] # "json") => pc'[s] = "done" ]_vars

\* Bob was announced for a frame, and the next frame, 125 ms later, had Bob
\* as its best name again and has ended
C13_Witness ==
  /\ spoken # <<>>
  /\ spoken[Len(spoken)].name = "Bob" /\ frame.best = "Bob"
  /\ frame.at - spoken[Len(spoken)].frame = 125
  /\ pc[1] = "done"

\* C14: any two utterances are triggered at least 1200 ms apart.
C14_UtterancesApart ==
  \A i, j \in DOMAIN spoken :
    i < j => spoken[j].at - spoken[i].at >= 1200

\* ---- card placement (CardSpec)

\* the overlap test of the frame just processed, on the card as the frame
\* found it
OverlapFound ==
  Intersects(LeftOf(card.side, VW),
             TopNow(CardEl, card.top, frame'.face[2], frame'.face[4], VH),
             frame'.face[1], frame'.face[2], frame'.face[3], frame'.face[4])

\* C15: a frame whose best face overlaps the card when no flip happened in
\* the last 700 ms toggles the card's side and records the flip, and no
\* frame changes the side again until 700 ms have passed since that flip.
C15_FlipOncePerCooldown ==
  [][ (applied' # applied /\ frame'.best # Unknown)
      => /\ (OverlapFound /\ now' - card.lastFlip > 700)
              => (card'.side # card.side /\ card'.lastFlip = now')
         /\ (card.lastFlip > 0 /\ now' - card.lastFlip <= 700)
              => card'.side = card.side ]_vars

\* C16: the rendered card never contains the whole best face at every
\* processed frame of a stretch longer than the flip cooldown.
C16_NeverCoversLong ==
  frame.cover >= 0 => frame.at - frame.cover <= 700

\* on a camera of the ideal size the card covers the face at no two
\* consecutive processed frames
IdealSizeUncovers ==
  (video = IdealSize /\ frame.cover >= 0) => frame.cover = frame.at

\* ---- searching (NarrSpec)

\* C17: the first processed frame without a best track after a frame with
\* one resets the displayed name and card data and sets the status to
\* "searching"; every further frame of the run keeps the status and runs
\* no reset.
C17_ResetOnce ==
  [][ (applied' # applied /\ frame'.best = Unknown)
      => /\ status' = "searching"
         /\ lastNameShown' = Unknown
         /\ ui'.currentName = Unknown /\ ui'.caption = ""
         /\ frame.best # Unknown => frame'.reset
         /\ frame.best = Unknown => (~frame'.reset /\ ui' = ui) ]_vars

\* Alice was shown; two frames later the second frame without detections
\* has been processed, without a reset
C17_Witness ==
  /\ trk[1].at >= 0 /\ frame.at - trk[1].at = 250
  /\ frame.best = Unknown /\ ~frame.reset
  /\ status = "searching" /\ ui.currentName = Unknown

\* ---- best track (CardSpec)

\* the tracks of the last processed frame with a stabilised name
NamedTracks == {t \in frame.tids : trackState[t].name # Unknown}

\* C18: the best track of a frame is a detection of highest confidence among
\* those of the frame whose stabilised name is not Unknown; there is none
\* exactly when no detection of the frame has such a name, and then the
\* status is "searching".
C18_BestIsMostConfident ==
  frame.at >= 0
    => /\ frame.best = Unknown <=> NamedTracks = {}
       /\ frame.best = Unknown => status = "searching"
       /\ frame.best # Unknown =>
            \E t \in NamedTracks :
              /\ trackState[t].name = frame.best
              /\ frame.face = trk[t].box
              /\ \A u \in NamedTracks : trackState[u].conf <= trackState[t].conf

\* the best track is the second of two named detections
C18_Witness ==
  /\ frame.tids = {1, 2} /\ NamedTracks = {1, 2}
  /\ frame.best = trackState[2].name
  /\ trackState[1].conf < trackState[2].conf

\* ---- box smoothing (TrackSpec)

\* q lies between p and x, and is not p unless p is x
MovesToward(p, q, x) ==
  /\ p <= x => (p <= q /\ q <= x)
  /\ p >= x => (x <= q /\ q <= p)
  /\ p # x => q # p

\* C19: in every frame that shows a track, each component of the track's
\* smoothed box moves from its previous value toward the raw value and not
\* past it (so that with a constant raw box it converges monotonically); a
\* track without a smoothed box gets the raw box itself.
C19_SmoothingConverges ==
  [][ \A t \in TrackIds :
        (applied' # applied /\ t \in frame'.tids)
          => /\ t \in DOMAIN smoothBoxes'
             /\ t \notin DOMAIN smoothBoxes => smoothBoxes'[t] = trk'[t].box
             /\ t \in DOMAIN smoothBoxes =>
                  \A i \in 1..4 :
                    MovesToward(smoothBoxes[t][i], smoothBoxes'[t][i], trk'[t].box[i]) ]_vars

\* the box of track 1 jumped from 1040 px to 240 px and has been there for
\* two frames: the smoothed box stands at 578 px
C19_Witness ==
  /\ 1 \in DOMAIN smoothBoxes
  /\ trk[1].box[1] = Px(240)
  /\ smoothBoxes[1][1] = Px(578)

\* ---- scaling and mirroring (GeomSpec)

\* C20: the box drawn for a first-seen track is the detection box with x and
\* w scaled by W/sendW, y and h by H/sendH, then mirrored once:
\* x' = W - (x + w) * W/sendW; [10,10,50,50] of a 320x240 sample is drawn on
\* a 1280x720 canvas at x' = 1040, y' = 30, w' = 200, h' = 150.
C20_ScaledThenMirrored ==
  geo.drawn
    => /\ geo.out = << Px(geo.W - ((geo.b[1] + geo.b[3]) * geo.W) \div geo.sendW),
                       Px((geo.b[2] * geo.H) \div geo.sendH),
                       Px((geo.b[3] * geo.W) \div geo.sendW),
                       Px((geo.b[4] * geo.H) \div geo.sendH) >>
       /\ (geo.b = <<10, 10, 50, 50>> /\ geo.W = 1280 /\ geo.sendW = 320)
            => geo.out = <<Px(1040), Px(30), Px(200), Px(150)>>

\* the example box has been drawn
C20_Witness ==
  /\ geo.drawn
  /\ geo.b = <<10, 10, 50, 50>> /\ geo.W = 1280 /\ geo.H = 720
  /\ geo.sendW = 320 /\ geo.sendH = 240
  /\ geo.out = <<Px(1040), Px(30), Px(200), Px(150)>>

\* ---- camera errors (Spec)

\* what holds of a session whose camera failed, and of the status
CameraErrorIsFinal ==
  /\ \A s \in Sessions :
        pc[s] = "camerr" => (myReqId[s] = 0 /\ timers[s] = <<>>)
  /\ status = "camera-error" => \E s \in Sessions : pc[s] = "camerr"
  /\ (started = 1 /\ pc[1] = "camerr") => status = "camera-error"

\* C21: when getUserMedia or video.play() fails, the status becomes
\* "camera-error" and init() ends: the session never starts the loop, never
\* has a timer, never issues a request and never asks for the camera again;
\* as long as no other run of the effect starts, the status stays.
C21_CameraErrorStopsSession ==
  /\ []CameraErrorIsFinal
  /\ [][ \A s \in Sessions :
          /\ (pc'[s] = "camerr" /\ pc[s] # "camerr")
               => (pc[s] \in {"gum", "play"} /\ status' = "camera-error")
          /\ pc[s] = "camerr" => pc'[s] = "camerr" ]_vars

\* the camera failed to start in the only run of the effect, which later
\* was torn down
C21_Witness ==
  /\ started = 1 /\ pc[1] = "camerr" /\ ~running[1]
  /\ video = NoVideo /\ now > 0
  /\ status = "camera-error" /\ reqCounter = 0

\* ---- directory failures (NarrSpec)

\* C22: when the directory lookup for a newly shown name answers with a
\* non-success status or fails, the caption, relationship, photo and photo
\* count become empty while the name stays, nothing is spoken for the frame,
\* the status is left alone, and the next cycle is scheduled 125 ms later.
C22_LookupFailureDegrades ==
  [][ \A s \in Sessions :
        (pc[s] = "memfetch" /\ pc'[s] = "done")
          => /\ ui'.currentName = bestName[s] /\ ui'.confidence = ui.confidence
             /\ ui'.caption = "" /\ ui'.relationship = ""
             /\ ui'.photoUrl = "undefined" /\ ui'.photosCount = -1
             /\ spoken' = spoken /\ lastSpeakAt' = lastSpeakAt
             /\ status' = status
             /\ timers'[s] = <<now' + 125>> ]_vars

\* Alice was shown with her memory and announced; then Bob was recognised,
\* his lookup failed, and the next cycle is scheduled
C22_Witness ==
  /\ Len(spoken) = 1 /\ spoken[1].name = "Alice"
  /\ ui.currentName = "Bob" /\ ui.caption = ""
  /\ status = "recognized"
  /\ pc[1] = "done" /\ timers[1] # <<>>

\* ---- status updates (NarrSpec)

\* C23: a call of safeSetStatus updates the UI state exactly when its
\* argument differs from the status applied last; a call with the current
\* status performs no update, and the status changes by such updates only.
C23_StatusAppliedOnChange ==
  /\ [](stat.set <=> stat.arg # stat.was)
  /\ [][ /\ stat' # stat => (stat'.was = status /\ stat'.arg = status')
         /\ status' # status => (stat'.set /\ stat'.arg = status')
         /\ (stat' # stat /\ ~stat'.set) => status' = status ]_vars

\* a second frame without a best track asked for "searching" again, and no
\* update was made
C23_Witness ==
  /\ stat.arg = "searching" /\ stat.was = "searching" /\ ~stat.set
  /\ status = "searching" /\ Len(applied) >= 2

\* ---- enrolment (EnrollSpec)

\* C24: a request with its three fields and at least 3 files, all of whose
\* /embed calls and uploads succeeded, is answered ok: true with the document
\* id and 3 image URLs, after exactly one document write and the ping of the
\* gallery sync, in the order embed x 3, centroid, upload x 3, write, sync.
C24_EnrollAnswersOk ==
  ( /\ enroll.pc = "answered"
    /\ Len(enroll.embeddings) = 3 /\ Len(enroll.urls) = 3 )
  => /\ enroll.res.ok /\ enroll.res.code = 200
     /\ enroll.res.id = DocId(enroll.name, enroll.relationship)
     /\ Len(enroll.res.urls) = 3
     /\ enroll.docs = <<enroll.res.id>>
     /\ enroll.steps = <<"embed", "embed", "embed", "centroid",
                         "upload", "upload", "upload", "write", "sync">>

\* ---- gallery sync (SyncSpec)

\* C25: a call with an expected name returns a result with ok = true only
\* if the expected name is among that result's synced_names.
C25_OkOnlyWithExpectedName ==
  (sync.pc = "returned" /\ sync.expect # "" /\ sync.ret.ok)
    => sync.expect \in sync.ret.names

\* what the loop does verify: a return from inside the loop carries the
\* expected name
EarlyReturnHasName ==
  [][ (sync.pc = "fetch" /\ sync'.pc = "returned" /\ sync.i < sync.attempts - 1
       /\ sync.expect # "")
      => sync.expect \in sync'.ret.names ]_vars

\* ---- outliers (VoteSpec)

\* the last frame of track t and the raw names before it were named with a
\* confidence below ACCEPT_CONF
LowAndNamed(t) ==
  \A i \in DOMAIN trk[t].raws :
    trk[t].raws[i].conf < 62 /\ trk[t].raws[i].name # Unknown

\* C26 (as claimed): among low-confidence frames of a track, a frame whose
\* name differs from the name of the frame before it is not labelled with
\* its own name, and when the frame after it has the earlier name again
\* (A, B, A) that frame is labelled A.
C26_OutlierNeverLabel ==
  \A t \in Committed :
    LET r == RawNames(trk[t])
        n == Len(r)
    IN LowAndNamed(t)
       => /\ (n >= 2 /\ r[n] # r[n - 1]) => Label(t) # r[n]
          /\ (n >= 3 /\ r[n] = r[n - 2] /\ r[n - 1] # r[n]) => Label(t) = r[n]

\* C26 (amended): among low-confidence named frames of a track, the label
\* of the track's first frame is its raw name and the label of every later
\* frame is the raw name of the frame before it: an outlier is not the
\* label in its own frame and is the label of the frame after it.
C26_LabelIsPreviousRaw ==
  \A t \in Committed :
    LET r == RawNames(trk[t])
        n == Len(r)
    IN LowAndNamed(t) => Label(t) = (IF n = 1 THEN r[1] ELSE r[n - 1])

\* the fourth frame of a track ended the raw names Alice, Bob, Alice, and
\* the frame before it was labelled Alice
C26_Witness ==
  /\ Len(applied) = 4 /\ 1 \in Committed
  /\ RawNames(trk[1]) = <<"Alice", "Bob", "Alice">>
  /\ trk[1].before.name = "Alice"
  /\ Label(1) = "Bob"

\* ---- status after an error (RecoverSpec)

\* C27: a processed frame with a best track leaves the status "recognized"
\* and one without leaves it "searching", whatever the status was before.
C27_StatusFollowsFrame ==
  [][ applied' # applied
      => status' = (IF frame'.best # Unknown THEN "recognized" ELSE "searching") ]_vars

\* what the code does give: a frame whose best name differs from the name
\* shown before it leaves "recognized", a frame without a best track leaves
\* "searching", and a frame with the name shown before leaves the status as
\* it was
StatusFollowsNameChange ==
  [][ applied' # applied
      => status' = (IF frame'.best = Unknown THEN "searching"
                    ELSE IF frame'.best # lastNameShown THEN "recognized"
                    ELSE status) ]_vars

\* ---- changes of the card's side (CardSpec)

\* C28: the card's side changes only by the overlap rule: a frame that
\* changes the side records the flip and comes more than 700 ms after the
\* flip recorded before, and a frame that records a flip has changed the
\* side.
C28_SideChangesByFlipOnly ==
  [][ /\ card'.side # card.side
           => (card'.lastFlip = now' /\ now' - card.lastFlip > 700)
      /\ card'.lastFlip # card.lastFlip => card'.side # card.side ]_vars

\* what the code does give: the side changes only in a frame that records a
\* flip or whose best name differs from the name shown before
SideChangesByFlipOrSnap ==
  [][ card'.side # card.side
      => (card'.lastFlip = now' \/ (frame'.best # Unknown /\ frame'.best # lastNameShown)) ]_vars

\* ---- overlapping requests (RecoverSpec)

\* C29: the engine does not wait for a recognition request to finish before
\* it issues the next: the next cycle of a session is never scheduled by the
\* step that completes the session's request, so that a request can be
\* issued while another is in flight.
C29_IssuesWithoutWaiting ==
  [][ \A s \in Sessions :
        Len(timers'[s]) > Len(timers[s])
          => pc[s] \notin {"fetch", "json", "memfetch", "memjson"} ]_vars

\* what the code does give: in one run of the effect every request issued
\* but the last has completed, so that no two are in flight together
OneRequestInFlight == reqCounter - evt.n \in {0, 1}

\* ---- late errors (Spec)

\* C30: no error outcome of a request changes the status once a response
\* with a higher epoch has been handled, whether the request fails in the
\* network or its processing throws.
C30_LateErrorKeepsStatus ==
  [][ \A s \in Sessions :
        (pc[s] \in {"fetch", "json"} /\ pc'[s] = "done" /\ myReqId[s] < lastHandledReq)
          => status' = status ]_vars

\* ---- epochs (Spec)

\* the marker of the last handled response is an epoch that was issued, and
\* so is every session's epoch; two sessions that issued hold different ones
EpochsIssued ==
  /\ lastHandledReq \in 0..reqCounter
  /\ \A s \in Sessions : myReqId[s] \in 0..reqCounter
  /\ \A s, t \in Sessions : (s # t /\ myReqId[s] > 0) => myReqId[s] # myReqId[t]

\* C31: the issued-epoch counter changes only when a request is issued, and
\* then by exactly one, the request taking the new value, which is above
\* every epoch issued before; the handled marker never decreases and never
\* exceeds the counter, whatever way a request completes.
C31_EpochsIncrease ==
  /\ []EpochsIssued
  /\ [][ /\ \A s \in Sessions :
              (pc[s] = "blob" /\ pc'[s] = "fetch")
                => /\ reqCounter' = reqCounter + 1
                   /\ myReqId'[s] = reqCounter'
                   /\ \A t \in Sessions : myReqId[t] < myReqId'[s]
         /\ reqCounter' # reqCounter
              => \E s \in Sessions : pc[s] = "blob" /\ pc'[s] = "fetch"
         /\ myReqId' # myReqId => reqCounter' # reqCounter
         /\ lastHandledReq' >= lastHandledReq
         /\ lastHandledReq' # lastHandledReq
              => \E s \in Sessions : lastHandledReq' = myReqId[s] ]_vars

\* both requests were issued, the second one's response was handled and the
\* first one's, arriving later, was dropped as stale
C31_Witness ==
  /\ reqCounter = 2 /\ lastHandledReq = 2
  /\ myReqId[1] = 1 /\ myReqId[2] = 2
  /\ evt.kind = "json" /\ evt.epoch = 1 /\ evt.handled = 2

\* ---- the three track maps (PairSpec)

\* C32: TrackState, TrackHistory and SmoothedBox hold entries for exactly
\* the same track ids after every processed frame, and every track of the
\* frame is among them.
C32_MapsHaveSameTracks ==
  /\ DOMAIN trackHistory = DOMAIN trackState
  /\ DOMAIN smoothBoxes = DOMAIN trackState
  /\ frame.tids \subseteq DOMAIN trackState

\* track 1 was pruned by a frame that showed track 2 alone, which is the
\* only track the three maps hold
C32_Witness ==
  /\ trk[1].at >= 0 /\ frame.at - trk[1].at > 2000
  /\ frame.tids = {2}
  /\ DOMAIN trackState = {2} /\ DOMAIN smoothBoxes = {2}

\* ---- where a stable name comes from (PairSpec)

\* C33: the stable name of a track is one of the raw names reported for that
\* track since its entry was created; and a frame leaves the state and the
\* history of a track it does not show as they were, unless it prunes the
\* track, and creates no entry for it.
C33_StableNameWasReported ==
  /\ [](\A t \in Committed : Label(t) \in trk[t].seen)
  /\ [][ \A t \in TrackIds :
          (applied' # applied /\ t \notin frame'.tids /\ t \in DOMAIN trackState')
            => /\ t \in DOMAIN trackState /\ t \in DOMAIN trackHistory
               /\ trackState'[t] = trackState[t]
               /\ trackHistory'[t] = trackHistory[t] ]_vars

\* track 1 is Alice, kept by the hysteresis in a frame that reported it
\* unknown; track 2, shown for the first time in the frame after, is Bob
C33_Witness ==
  /\ DOMAIN trackState = {1, 2} /\ frame.tids = {2}
  /\ Label(1) = "Alice" /\ RawNow(trk[1]).name = Unknown
  /\ Label(2) = "Bob" /\ trk[2].seen = {"Bob"}

\* ---- the decision to narrate (NarrSpec)

\* C34: a directory lookup starts only in a frame whose best name differs
\* from the name shown last, and that frame has made the best name the name
\* shown last before the lookup settles; an utterance is triggered only when
\* a lookup's answer has been read, for the name of that lookup's frame; a
\* frame whose best name is the name shown last starts no lookup and
\* triggers nothing, whether or not the name was ever announced.
C34_NarrationDecidedOnChange ==
  [][ /\ \A s \in Sessions :
           (pc[s] # "memfetch" /\ pc'[s] = "memfetch")
             => /\ pc[s] = "json" /\ frame'.best # Unknown
                /\ frame'.best # lastNameShown
                /\ lastNameShown' = frame'.best /\ bestName'[s] = frame'.best
                /\ spoken' = spoken /\ lastSpeakAt' = lastSpeakAt
      /\ spoken' # spoken
           => \E s \in Sessions :
                /\ pc[s] = "memjson" /\ pc'[s] = "done"
                /\ spoken' = Append(spoken, [name |-> bestName[s], at |-> now',
                                             frame |-> frameNow[s]])
                /\ frameNow[s] - lastSpeakAt > 1200
      /\ (applied' # applied /\ frame'.best # Unknown /\ frame'.best = lastNameShown)
           => /\ spoken' = spoken /\ lastNameShown' = lastNameShown
              /\ \A s \in Sessions : pc'[s] = "memfetch" => pc[s] = "memfetch" ]_vars

\* Alice was announced; Bob became the best name within the cooldown, his
\* memory was fetched and shown but not spoken; a further frame with Bob has
\* been processed and Bob is still unannounced
C34_Witness ==
  /\ Len(spoken) = 1 /\ spoken[1].name = "Alice"
  /\ lastNameShown = "Bob" /\ frame.best = "Bob" /\ ui.caption = "cap"
  /\ trk[1].at = frame.at /\ trk[1].before.name = "Bob"
  /\ pc[1] = "done"

\* ---- a response after teardown (TeardownSpec)

\* C35: when a session was torn down with its recognition request in
\* flight, the rest of that iteration changes no track map, no status, no
\* displayed name or card data and no card placement, starts no directory
\* lookup and triggers no utterance.
C35_ResponseAfterTeardownDropped ==
  [][ \A s \in Sessions :
        ( /\ ~running[s] /\ pc'[s] # pc[s]
          /\ pc[s] \in {"fetch", "json", "memfetch", "memjson"} )
          => /\ UNCHANGED <<trackState, trackHistory, smoothBoxes>>
             /\ UNCHANGED <<status, ui, card, lastNameShown>>
             /\ UNCHANGED <<spoken, lastSpeakAt>>
             /\ pc'[s] # "memfetch" ]_vars

\* what the guards do give: an iteration of a torn-down session is the one
\* whose request was in flight at teardown, and that session issues no
\* further request and starts no further iteration
OneIterationAfterTeardown ==
  [][ \A s \in Sessions :
        ~running[s] => (myReqId'[s] = myReqId[s] /\ (pc'[s] = "blob" => pc[s] = "blob")) ]_vars

\* ---- the stored history (TrackSpec)

\* C36: a track's stored history holds one or two names; after a frame that
\* shows the track it is the sequence of the raw names of the track's last
\* two appearances since its entry was created (of its only appearance when
\* there is one), oldest first: the sort that finds the majority leaves the
\* stored order as it was.
C36_HistoryIsLastRawNames ==
  /\ \A t \in DOMAIN trackHistory : Len(trackHistory[t]) \in 1..2
  /\ \A t \in Committed : trackHistory[t] = LastTwo(RawNames(trk[t]))

\* track 1 was reported as Alice, Bob and unknown: its history is Bob,
\* unknown
C36_Witness ==
  /\ 1 \in Committed
  /\ RawNames(trk[1]) = <<"Alice", "Bob", Unknown>>
  /\ trackHistory[1] = <<"Bob", Unknown>>
  /\ trk[1].at = frame.at

\* ---- the card's top (CardSpec)

\* C37 (as claimed): every top written for the card keeps the card within
\* the viewport with the edge padding: top >= PAD and top + CARD_H <= H - PAD.
C37_TopWithinViewport ==
  card.top # NaNTop
    => /\ card.top >= Px(PAD)
       /\ card.top + Px(CARD_H) <= Px(VH) - Px(PAD)

\* C37 (amended): every top written for the card is at least PAD, and
\* top + CARD_H <= H - PAD whenever the viewport is high enough for the card
\* and the padding on both edges (H >= CARD_H + 2 * PAD); in a lower
\* viewport the top written is PAD.
C37_TopWithinViewportIfRoom ==
  card.top # NaNTop
    => /\ card.top >= Px(PAD)
       /\ VH >= CARD_H + 2 * PAD => card.top + Px(CARD_H) <= Px(VH) - Px(PAD)
       /\ VH < CARD_H + 2 * PAD => card.top = Px(PAD)

\* on the 1280x720 viewport the frame just processed wrote the card's top,
\* above the centred position, which the face would have touched
C37_Witness ==
  /\ video = IdealSize /\ frame.best # Unknown
  /\ card.lastY = frame.at /\ card.top # NaNTop
  /\ ~ClearVertically(Px(VH) \div 2 - Px(CARD_H) \div 2, frame.face[2], frame.face[4])
  /\ card.top < Px(VH) \div 2 - Px(CARD_H) \div 2

\* ---- the retry loop (SyncSpec)

\* the result is one the loop accepts: a JSON answer that carries the
\* expected name, or any JSON answer when no name is expected
Accepted(expect, res) == res.status = 200 /\ Present(expect, res.names)

\* C38: a call sends at most `attempts` sync requests and waits only
\* between two of them; it returns the first accepted answer as soon as it
\* is read; it returns earlier than after `attempts` requests only with an
\* accepted answer, and after `attempts` requests without one it returns the
\* result of the last attempt, whatever went wrong in it.
C38_RetryLoopTerminates ==
  /\ [](/\ sync.pc # "none" =>
              /\ sync.reqs \in 0..sync.attempts
              /\ sync.slept = (IF sync.pc \in {"sleep"} THEN sync.reqs
                               ELSE Max(sync.reqs - 1, 0))
        /\ sync.pc = "returned" =>
              /\ sync.ret = sync.lastResult
              /\ sync.reqs < sync.attempts => Accepted(sync.expect, sync.ret))
  /\ [][ /\ (sync.pc = "fetch" /\ Accepted(sync.expect, sync'.lastResult))
             => sync'.pc = "returned"
         /\ (sync.pc = "fetch" /\ sync'.pc = "sleep") => sync.reqs < sync.attempts
         /\ sync.pc = "returned" => sync' = sync ]_vars

\* three attempts were made, with two waits between them, and the call has
\* returned the failure of the third
C38_Witness ==
  /\ sync.pc = "returned" /\ sync.attempts = 3
  /\ sync.reqs = 3 /\ sync.slept = 2
  /\ ~sync.ret.ok /\ sync.ret.error = "error"

====
